---- MODULE Spec2Model ----
(***************************************************************************)
(* Model of the container command module's argument validators             *)
(* (azure/cli/command_modules/container/_validators.py).                    *)
(*                                                                         *)
(* A Python value is a record [kind, val]: kind is the Python type         *)
(* ("None", "str", "DefaultStr", "list", "dict", or "missing" for an       *)
(* attribute that does not exist) and val its content.  A string is the    *)
(* sequence of its pieces: the characters the code looks at (":", ".",     *)
(* "=", "/") are pieces of their own, and a word piece stands for a run of *)
(* other characters.  Secret tokens are sequences of single characters.   *)
(***************************************************************************)
EXTENDS Integers, Sequences, FiniteSets, TLC

VARIABLES
    ns,        \* the namespace (parsed arguments) the validators work on
    pre,       \* the namespace as it was when the last validator was called
    last,      \* the validator called last ("none" before the first call)
    raised,    \* the error the last call raised, NoError if it returned
    queries,   \* the remote role-definition list queries the last call issued
    warned,    \* TRUE iff the last call logged a warning
    remote     \* the role definitions the remote authorization service holds

vars == <<ns, pre, last, raised, queries, warned, remote>>

-----------------------------------------------------------------------------
(* Bounds *)

MaxSecrets == 2     \* longest list of secret tokens
MaxTokenLen == 3    \* longest secret token enumerated in full, in characters
MaxRoleDefs == 2    \* most role definitions the remote service holds

-----------------------------------------------------------------------------
(* Python values *)

None == [kind |-> "None", val |-> <<>>]
Missing == [kind |-> "missing", val |-> <<>>]
Str(s) == [kind |-> "str", val |-> s]
DefaultStr(s) == [kind |-> "DefaultStr", val |-> s]
List(l) == [kind |-> "list", val |-> l]
Dict(d) == [kind |-> "dict", val |-> d]

\* Python truth value: None, '', [] and {} are false.
Truthy(x) == x.kind \notin {"None", "missing"} /\ x.val # <<>>

\* `sub in s` for strings: sub occurs as a contiguous run of s.
Contains(s, sub) ==
    \E i \in 0..(Len(s) - Len(sub)) : SubSeq(s, i + 1, i + Len(sub)) = sub

\* `x in l` for a list of strings.
InList(x, l) == \E i \in 1..Len(l) : l[i] = x

\* Index of the first occurrence of piece c in s, 0 if there is none.
FirstIndex(s, c) ==
    IF \E i \in 1..Len(s) : s[i] = c
    THEN CHOOSE i \in 1..Len(s) : s[i] = c /\ \A j \in 1..(i - 1) : s[j] # c
    ELSE 0

\* All sequences over S of length at most n.
SeqsUpTo(S, n) == UNION {[1..k -> S] : k \in 0..n}

NoError == [msg |-> "none", ids |-> <<>>]
CLIError(m) == [msg |-> m, ids |-> <<>>]

\* What a call hands back: the namespace after it, the error it raised (if
\* any), the remote queries it issued and whether it logged a warning.
Returned(n) == [ns |-> n, raised |-> NoError, queries |-> <<>>, warned |-> FALSE]
Raised(n, m) == [ns |-> n, raised |-> CLIError(m), queries |-> <<>>, warned |-> FALSE]

-----------------------------------------------------------------------------
(* validate_volume_mount_path, validate_gitrepo_directory, validate_image *)

validate_volume_mount_path(n) ==
    IF Truthy(n.azure_file_volume_mount_path)
       /\ Contains(n.azure_file_volume_mount_path.val, <<":">>)
    THEN Raised(n, "The volume mount path cannot contain ':'")
    ELSE Returned(n)

validate_gitrepo_directory(n) ==
    IF Truthy(n.gitrepo_dir) /\ Contains(n.gitrepo_dir.val, <<".", ".">>)
    THEN Raised(n, "The git repo directory cannot contain '..'")
    ELSE Returned(n)

short_running_images ==
    {<<"alpine">>, <<"busybox">>, <<"ubuntu">>, <<"node">>, <<"golang">>,
     <<"centos">>, <<"python">>, <<"php">>}

\* s.split(c)[0]: the part of s before the first c, all of s if there is none.
SplitHead(s, c) ==
    IF FirstIndex(s, c) = 0 THEN s ELSE SubSeq(s, 1, FirstIndex(s, c) - 1)

validate_image(n) ==
    IF Truthy(n.image)
       /\ SplitHead(n.image.val, ":") \in short_running_images
       /\ ~Truthy(n.command_line)
    THEN [Returned(n) EXCEPT !.warned = TRUE]
    ELSE Returned(n)

-----------------------------------------------------------------------------
(* validate_secret, validate_secrets *)

\* Character codes of the characters secret tokens are made of.
Ord(c) == CASE c = "k" -> 107 [] c = "=" -> 61

\* str.encode('ascii')
encode(s) == [i \in 1..Len(s) |-> Ord(s[i])]

B64Alphabet ==
    <<"A", "B", "C", "D", "E", "F", "G", "H", "I", "J", "K", "L", "M", "N", "O", "P",
      "Q", "R", "S", "T", "U", "V", "W", "X", "Y", "Z", "a", "b", "c", "d", "e", "f",
      "g", "h", "i", "j", "k", "l", "m", "n", "o", "p", "q", "r", "s", "t", "u", "v",
      "w", "x", "y", "z", "0", "1", "2", "3", "4", "5", "6", "7", "8", "9", "+", "/">>

\* base64.b64encode followed by .decode('ascii'): three bytes become four
\* characters, a last group of one or two bytes is padded with '='.
RECURSIVE b64encode(_)
b64encode(b) ==
    IF Len(b) = 0 THEN <<>>
    ELSE IF Len(b) = 1 THEN
        <<B64Alphabet[(b[1] \div 4) + 1],
          B64Alphabet[((b[1] % 4) * 16) + 1], "=", "=">>
    ELSE IF Len(b) = 2 THEN
        <<B64Alphabet[(b[1] \div 4) + 1],
          B64Alphabet[((b[1] % 4) * 16) + (b[2] \div 16) + 1],
          B64Alphabet[((b[2] % 16) * 4) + 1], "=">>
    ELSE
        <<B64Alphabet[(b[1] \div 4) + 1],
          B64Alphabet[((b[1] % 4) * 16) + (b[2] \div 16) + 1],
          B64Alphabet[((b[2] % 16) * 4) + (b[3] \div 64) + 1],
          B64Alphabet[(b[3] % 64) + 1]>> \o b64encode(SubSeq(b, 4, Len(b)))

\* string.split('=', 1): at most one split, at the first '='.
SplitFirst(s) ==
    IF FirstIndex(s, "=") = 0 THEN <<s>>
    ELSE <<SubSeq(s, 1, FirstIndex(s, "=") - 1),
           SubSeq(s, FirstIndex(s, "=") + 1, Len(s))>>

EmptyDict == [k \in {} |-> <<>>]

\* Variant: splits at every '=' and so rejects a value that holds '='.
validate_secret_split_all(string) ==
    IF Truthy(string)
    THEN LET comps == SplitFirst(string.val)
         IN  IF Len(comps) # 2 \/ FirstIndex(comps[2], "=") # 0
             THEN [result |-> EmptyDict,
                   raised |-> CLIError("Secrets need to be specifed in key=value format.")]
             ELSE [result |-> (comps[1] :> b64encode(encode(comps[2]))),
                   raised |-> NoError]
    ELSE [result |-> EmptyDict, raised |-> NoError]

validate_secret(string) ==
    IF Truthy(string)
    THEN LET comps == SplitFirst(string.val)
         IN  IF Len(comps) # 2
             THEN [result |-> EmptyDict,
                   raised |-> CLIError("Secrets need to be specifed in key=value format.")]
             ELSE [result |-> (comps[1] :> b64encode(encode(comps[2]))),
                   raised |-> NoError]
    ELSE [result |-> EmptyDict, raised |-> NoError]

\* Variant: an earlier item's entry is kept when a later item has its key.
RECURSIVE SecretsLoop_first_wins(_, _, _)
SecretsLoop_first_wins(items, i, d) ==
    IF i > Len(items) THEN [result |-> d, raised |-> NoError]
    ELSE LET r == validate_secret(Str(items[i]))
         IN  IF r.raised # NoError THEN [result |-> d, raised |-> r.raised]
             ELSE SecretsLoop_first_wins(items, i + 1, d @@ r.result)

\* The loop of validate_secrets from item i on, secrets_dict being d:
\* dict.update lets the later item's entry replace an earlier one.
RECURSIVE SecretsLoop(_, _, _)
SecretsLoop(items, i, d) ==
    IF i > Len(items) THEN [result |-> d, raised |-> NoError]
    ELSE LET r == validate_secret(Str(items[i]))
         IN  IF r.raised # NoError THEN [result |-> d, raised |-> r.raised]
             ELSE SecretsLoop(items, i + 1, r.result @@ d)

\* Variant: stores the entries collected so far before it raises.
validate_secrets_storing_early(n) ==
    IF n.secrets.kind = "list"
    THEN LET r == SecretsLoop(n.secrets.val, 1, EmptyDict)
         IN  IF r.raised # NoError
             THEN [Returned([n EXCEPT !.secrets = Dict(r.result)]) EXCEPT !.raised = r.raised]
             ELSE Returned([n EXCEPT !.secrets = Dict(r.result)])
    ELSE Returned(n)

validate_secrets(n) ==
    IF n.secrets.kind = "list"
    THEN LET r == SecretsLoop(n.secrets.val, 1, EmptyDict)
         IN  IF r.raised # NoError
             THEN [Returned(n) EXCEPT !.raised = r.raised]
             ELSE Returned([n EXCEPT !.secrets = Dict(r.result)])
    ELSE Returned(n)

-----------------------------------------------------------------------------
(* _resolve_role_id, validate_msi *)

\* str.lower() of a piece (what re.I and the resource-ID comparison ignore).
Lower(t) ==
    CASE t = "SUBSCRIPTIONS" -> "subscriptions"
      [] t = "resourceGroups" -> "resourcegroups"
      [] t = "Microsoft.Authorization" -> "microsoft.authorization"
      [] t = "roleDefinitions" -> "roledefinitions"
      [] t = "Microsoft.Network" -> "microsoft.network"
      [] t = "networkProfiles" -> "networkprofiles"
      [] t = "virtualNetworks" -> "virtualnetworks"
      [] OTHER -> t

LowerStr(s) == [i \in 1..Len(s) |-> Lower(s[i])]

RoleDefinitionsInfix ==
    <<"/", "providers", "/", "Microsoft.Authorization", "/", "roleDefinitions", "/">>

\* re.match(r'/subscriptions/.+/providers/Microsoft.Authorization/roleDefinitions/',
\*          role, re.I): anchored at the start only, '.+' is one piece or more.
MatchesRoleDefinitionPath(s) ==
    /\ Len(s) >= 3
    /\ LowerStr(SubSeq(s, 1, 3)) = <<"/", "subscriptions", "/">>
    /\ \E i \in 5..(Len(s) - Len(RoleDefinitionsInfix) + 1) :
          LowerStr(SubSeq(s, i, i + Len(RoleDefinitionsInfix) - 1))
              = LowerStr(RoleDefinitionsInfix)

\* The words uuid.UUID() accepts: the hyphenated form and the braced form.
UuidWords ==
    {"acdd72a7-3385-48ef-bd42-f606fba81ae7", "{b24988ac-6180-42a0-ab88-20f7382dd24c}"}

\* uuid.UUID(s) returns (TRUE) or raises ValueError (FALSE).
ParsesAsUUID(s) == Len(s) = 1 /\ s[1] \in UuidWords

\* "roleName eq '{}'".format(role)
RoleNameFilter(role) == <<"roleName eq '">> \o role \o <<"'">>

\* client.list(scope, filter) of the remote role-definitions client: the
\* definitions under the scope that the filter selects, in service order.
ClientList(defs, scope, filter) ==
    SelectSeq(defs, LAMBDA d : d.scope = scope.val /\ filter = RoleNameFilter(d.roleName))

\* Variant: takes the first of several matches instead of raising.
_resolve_role_id_first_match(cli_ctx, role, scope) ==
    IF MatchesRoleDefinitionPath(role.val)
    THEN [role_id |-> Str(role.val), raised |-> NoError, queries |-> <<>>]
    ELSE IF ParsesAsUUID(role.val)
    THEN [role_id |-> Str(<<"/", "subscriptions", "/">> \o cli_ctx.subscription_id
                          \o RoleDefinitionsInfix \o role.val),
          raised |-> NoError, queries |-> <<>>]
    ELSE LET q == [scope |-> scope.val, filter |-> RoleNameFilter(role.val)]
             role_defs == ClientList(cli_ctx.role_definitions, scope, q.filter)
         IN  IF Len(role_defs) = 0
             THEN [role_id |-> None, queries |-> <<q>>,
                   raised |-> CLIError("Role '{}' doesn't exist.")]
             ELSE [role_id |-> Str(role_defs[1].id), raised |-> NoError, queries |-> <<q>>]

_resolve_role_id(cli_ctx, role, scope) ==
    IF MatchesRoleDefinitionPath(role.val)
    THEN [role_id |-> Str(role.val), raised |-> NoError, queries |-> <<>>]
    ELSE IF ParsesAsUUID(role.val)
    THEN [role_id |-> Str(<<"/", "subscriptions", "/">> \o cli_ctx.subscription_id
                          \o RoleDefinitionsInfix \o role.val),
          raised |-> NoError, queries |-> <<>>]
    ELSE LET q == [scope |-> scope.val, filter |-> RoleNameFilter(role.val)]
             role_defs == ClientList(cli_ctx.role_definitions, scope, q.filter)
         IN  IF Len(role_defs) = 0
             THEN [role_id |-> None, queries |-> <<q>>,
                   raised |-> CLIError("Role '{}' doesn't exist.")]
             ELSE IF Len(role_defs) > 1
             THEN [role_id |-> None, queries |-> <<q>>,
                   raised |-> [msg |-> "More than one role matches the given name '{}'. Please pick an id from '{}'",
                               ids |-> [i \in 1..Len(role_defs) |-> role_defs[i].id]]]
             ELSE [role_id |-> Str(role_defs[1].id), raised |-> NoError, queries |-> <<q>>]

MSI_LOCAL_ID == <<"[system]">>

\* getattr(role, 'is_default', None) is None: only the parser's DefaultStr,
\* the value of an option the user did not give, carries is_default.
IsDefaultIsNone(role) == role.kind # "DefaultStr"

\* Variant: accepts an explicit role when no identity is to be assigned.
validate_msi_role_without_identity(cmd, namespace) ==
    IF namespace.assign_identity.kind # "None"
    THEN LET identities == IF Truthy(namespace.assign_identity)
                           THEN namespace.assign_identity.val ELSE <<>>
         IN  IF ~Truthy(namespace.identity_scope) /\ IsDefaultIsNone(namespace.identity_role)
             THEN Raised(namespace, "usage error: '--role {}' is not applicable as the '--scope' is not provided")
             ELSE IF Truthy(namespace.identity_scope)
             THEN IF identities # <<>> /\ ~InList(MSI_LOCAL_ID, identities)
                  THEN Raised(namespace, "usage error: '--scope'/'--role' is only applicable when assign system identity")
                  ELSE LET r == _resolve_role_id(cmd.cli_ctx, namespace.identity_role,
                                                 namespace.identity_scope)
                       IN  IF r.raised # NoError
                           THEN [ns |-> namespace, raised |-> r.raised,
                                 queries |-> r.queries, warned |-> FALSE]
                           ELSE [ns |-> [namespace EXCEPT !.identity_role_id = r.role_id],
                                 raised |-> NoError, queries |-> r.queries, warned |-> FALSE]
             ELSE Returned(namespace)
    ELSE IF Truthy(namespace.identity_scope)
    THEN Raised(namespace, "usage error: --assign-identity [--scope SCOPE] [--role ROLE]")
    ELSE Returned(namespace)

\* Variant: stores the resolved id over identity_role.
validate_msi_overwriting_role(cmd, namespace) ==
    IF namespace.assign_identity.kind # "None"
    THEN LET identities == IF Truthy(namespace.assign_identity)
                           THEN namespace.assign_identity.val ELSE <<>>
         IN  IF ~Truthy(namespace.identity_scope) /\ IsDefaultIsNone(namespace.identity_role)
             THEN Raised(namespace, "usage error: '--role {}' is not applicable as the '--scope' is not provided")
             ELSE IF Truthy(namespace.identity_scope)
             THEN IF identities # <<>> /\ ~InList(MSI_LOCAL_ID, identities)
                  THEN Raised(namespace, "usage error: '--scope'/'--role' is only applicable when assign system identity")
                  ELSE LET r == _resolve_role_id(cmd.cli_ctx, namespace.identity_role,
                                                 namespace.identity_scope)
                       IN  IF r.raised # NoError
                           THEN [ns |-> namespace, raised |-> r.raised,
                                 queries |-> r.queries, warned |-> FALSE]
                           ELSE [ns |-> [namespace EXCEPT !.identity_role = r.role_id],
                                 raised |-> NoError, queries |-> r.queries, warned |-> FALSE]
             ELSE Returned(namespace)
    ELSE IF Truthy(namespace.identity_scope) \/ IsDefaultIsNone(namespace.identity_role)
    THEN Raised(namespace, "usage error: --assign-identity [--scope SCOPE] [--role ROLE]")
    ELSE Returned(namespace)

validate_msi(cmd, namespace) ==
    IF namespace.assign_identity.kind # "None"
    THEN LET identities == IF Truthy(namespace.assign_identity)
                           THEN namespace.assign_identity.val ELSE <<>>
         IN  IF ~Truthy(namespace.identity_scope) /\ IsDefaultIsNone(namespace.identity_role)
             THEN Raised(namespace, "usage error: '--role {}' is not applicable as the '--scope' is not provided")
             ELSE IF Truthy(namespace.identity_scope)
             THEN IF identities # <<>> /\ ~InList(MSI_LOCAL_ID, identities)
                  THEN Raised(namespace, "usage error: '--scope'/'--role' is only applicable when assign system identity")
                  ELSE LET r == _resolve_role_id(cmd.cli_ctx, namespace.identity_role,
                                                 namespace.identity_scope)
                       IN  IF r.raised # NoError
                           THEN [ns |-> namespace, raised |-> r.raised,
                                 queries |-> r.queries, warned |-> FALSE]
                           ELSE [ns |-> [namespace EXCEPT !.identity_role_id = r.role_id],
                                 raised |-> NoError, queries |-> r.queries, warned |-> FALSE]
             ELSE Returned(namespace)
    ELSE IF Truthy(namespace.identity_scope) \/ IsDefaultIsNone(namespace.identity_role)
    THEN Raised(namespace, "usage error: --assign-identity [--scope SCOPE] [--role ROLE]")
    ELSE Returned(namespace)

-----------------------------------------------------------------------------
(* validate_subnet, validate_network_profile *)

IsWord(t) == t # "/"

\* s begins with "/<key>/<word>", the key compared without regard to case.
StartsWithKey(s, key) ==
    Len(s) >= 4 /\ s[1] = "/" /\ Lower(s[2]) = Lower(key) /\ s[3] = "/" /\ IsWord(s[4])

\* Child resources: any number of "/<type>/<name>" pairs.
RECURSIVE ChildrenOk(_)
ChildrenOk(c) ==
    \/ c = <<>>
    \/ /\ Len(c) >= 4 /\ c[1] = "/" /\ IsWord(c[2]) /\ c[3] = "/" /\ IsWord(c[4])
       /\ ChildrenOk(SubSeq(c, 5, Len(c)))

\* Nothing, or "/providers/<namespace>/<type>/<name>" and children.
ProviderPartOk(s) ==
    \/ s = <<>>
    \/ /\ StartsWithKey(s, "providers")
       /\ ChildrenOk(SubSeq(s, 5, Len(s)))
       /\ Len(s) >= 8

\* msrestazure.tools.is_valid_resource_id: the string parses as
\* /subscriptions/{sub}[/resourceGroups/{rg}][/providers/{ns}/{type}/{name}...]
\* and formatting the parts again gives the string back (ignoring case).
is_valid_resource_id(rid) ==
    /\ Truthy(rid)
    /\ StartsWithKey(rid.val, "subscriptions")
    /\ LET rest == SubSeq(rid.val, 5, Len(rid.val))
       IN  IF StartsWithKey(rest, "resourceGroups")
           THEN ProviderPartOk(SubSeq(rest, 5, Len(rest)))
           ELSE ProviderPartOk(rest)

\* msrestazure.tools.resource_id: formats the parts that are not None.
resource_id(subscription, resource_group, namespace, type, name) ==
    Str(<<"/", "subscriptions", "/">> \o subscription
        \o (IF resource_group.kind = "None" THEN <<>>
            ELSE <<"/", "resourceGroups", "/">> \o resource_group.val)
        \o <<"/", "providers", "/", namespace, "/", type, "/">> \o name.val)

\* azure.cli.core.commands.client_factory.get_subscription_id
get_subscription_id(cli_ctx) == cli_ctx.subscription_id

\* Variant: copies vnet_name over a vnet that is set.
validate_subnet_overwriting_vnet(n) ==
    LET n1 == IF Truthy(n.vnet_name)
              THEN [n EXCEPT !.vnet = n.vnet_name] ELSE n
    IN  IF /\ ~is_valid_resource_id(n1.subnet)
           /\ \/ Truthy(n1.vnet) /\ ~Truthy(n1.subnet)
              \/ Truthy(n1.subnet) /\ ~Truthy(n1.vnet)
        THEN Raised(n1, "usage error: --vnet NAME --subnet NAME | --vnet ID --subnet NAME | --subnet ID")
        ELSE Returned(n1)

validate_subnet(n) ==
    LET n1 == IF Truthy(n.vnet_name) /\ ~Truthy(n.vnet)
              THEN [n EXCEPT !.vnet = n.vnet_name] ELSE n
    IN  IF /\ ~is_valid_resource_id(n1.subnet)
           /\ \/ Truthy(n1.vnet) /\ ~Truthy(n1.subnet)
              \/ Truthy(n1.subnet) /\ ~Truthy(n1.vnet)
        THEN Raised(n1, "usage error: --vnet NAME --subnet NAME | --vnet ID --subnet NAME | --subnet ID")
        ELSE Returned(n1)

\* Variant: does not reject a dns_name_label.
validate_network_profile_allowing_dns(cmd, n) ==
    IF Truthy(n.network_profile) /\ Truthy(n.ip_address)
    THEN Raised(n, "Can not use --network-profile with IP address type Public.")
    ELSE IF Truthy(n.network_profile) /\ ~is_valid_resource_id(n.network_profile)
    THEN Returned([n EXCEPT !.network_profile =
                      resource_id(get_subscription_id(cmd.cli_ctx), n.resource_group_name,
                                  "Microsoft.Network", "networkProfiles", n.network_profile)])
    ELSE Returned(n)

\* Variant: builds the ID without the resource group.
validate_network_profile_without_group(cmd, n) ==
    IF Truthy(n.network_profile) /\ Truthy(n.ip_address)
    THEN Raised(n, "Can not use --network-profile with IP address type Public.")
    ELSE IF Truthy(n.network_profile) /\ Truthy(n.dns_name_label)
    THEN Raised(n, "Can not use --network-profile with --dns-name-label.")
    ELSE IF Truthy(n.network_profile) /\ ~is_valid_resource_id(n.network_profile)
    THEN Returned([n EXCEPT !.network_profile =
                      resource_id(get_subscription_id(cmd.cli_ctx), None,
                                  "Microsoft.Network", "networkProfiles", n.network_profile)])
    ELSE Returned(n)

\* Variant: builds an ID from a value that is one already.
validate_network_profile_always_building(cmd, n) ==
    IF Truthy(n.network_profile) /\ Truthy(n.ip_address)
    THEN Raised(n, "Can not use --network-profile with IP address type Public.")
    ELSE IF Truthy(n.network_profile) /\ Truthy(n.dns_name_label)
    THEN Raised(n, "Can not use --network-profile with --dns-name-label.")
    ELSE IF Truthy(n.network_profile)
    THEN Returned([n EXCEPT !.network_profile =
                      resource_id(get_subscription_id(cmd.cli_ctx), n.resource_group_name,
                                  "Microsoft.Network", "networkProfiles", n.network_profile)])
    ELSE Returned(n)

validate_network_profile(cmd, n) ==
    IF Truthy(n.network_profile) /\ Truthy(n.ip_address)
    THEN Raised(n, "Can not use --network-profile with IP address type Public.")
    ELSE IF Truthy(n.network_profile) /\ Truthy(n.dns_name_label)
    THEN Raised(n, "Can not use --network-profile with --dns-name-label.")
    ELSE IF Truthy(n.network_profile) /\ ~is_valid_resource_id(n.network_profile)
    THEN Returned([n EXCEPT !.network_profile =
                      resource_id(get_subscription_id(cmd.cli_ctx), n.resource_group_name,
                                  "Microsoft.Network", "networkProfiles", n.network_profile)])
    ELSE Returned(n)

-----------------------------------------------------------------------------
(* The arguments a command line can produce *)

SubscriptionId == <<"sub0">>

Scope1 == <<"/", "subscriptions", "/", "sub0">>
Scope2 == <<"/", "subscriptions", "/", "sub0", "/", "resourceGroups", "/", "rg1">>

RoleDefinitionId(name) ==
    <<"/", "subscriptions", "/">> \o SubscriptionId \o RoleDefinitionsInfix \o <<name>>

\* Role definitions the remote service may hold: two of the same name under
\* one scope, the name again under another scope, and one named like a UUID.
RoleDefinitions ==
    {[id |-> RoleDefinitionId("r1"), roleName |-> <<"Reader">>, scope |-> Scope1],
     [id |-> RoleDefinitionId("r2"), roleName |-> <<"Reader">>, scope |-> Scope1],
     [id |-> RoleDefinitionId("r3"), roleName |-> <<"Reader">>, scope |-> Scope2],
     [id |-> RoleDefinitionId("r4"), roleName |-> <<"Contributor">>, scope |-> Scope1],
     [id |-> RoleDefinitionId("r5"),
      roleName |-> <<"acdd72a7-3385-48ef-bd42-f606fba81ae7">>, scope |-> Scope1]}

Remotes ==
    {d \in SeqsUpTo(RoleDefinitions, MaxRoleDefs) :
        \A i, j \in 1..Len(d) : i # j => d[i] # d[j]}

NetworkProfileId ==
    <<"/", "subscriptions", "/", "sub1", "/", "resourceGroups", "/", "rg9",
      "/", "providers", "/", "Microsoft.Network", "/", "networkProfiles", "/", "np1">>

SubnetId ==
    <<"/", "SUBSCRIPTIONS", "/", "sub1", "/", "resourceGroups", "/", "rg9",
      "/", "providers", "/", "Microsoft.Network", "/", "virtualNetworks", "/", "vn1",
      "/", "subnets", "/", "sn1">>

VnetId == SubSeq(SubnetId, 1, Len(SubnetId) - 4)

SecretChars == {"k", "="}
\* Every short token, and two longer ones whose values fill a whole base64
\* group ('=kkk') and a group and a padded rest ('k=kk=k').
SecretTokens ==
    SeqsUpTo(SecretChars, MaxTokenLen)
    \cup {<<"=", "k", "k", "k">>, <<"k", "=", "k", "k", "=", "k">>}

DefaultNamespace ==
    [azure_file_volume_mount_path |-> None, secrets |-> None, gitrepo_dir |-> None,
     image |-> None, command_line |-> None,
     assign_identity |-> None, identity_scope |-> None,
     identity_role |-> DefaultStr(<<"Contributor">>), identity_role_id |-> Missing,
     vnet_name |-> None, vnet |-> None, subnet |-> None,
     network_profile |-> None, ip_address |-> None, dns_name_label |-> None,
     resource_group_name |-> Str(<<"rg1">>)]

MountPaths == {None, Str(<<>>), Str(<<"/", "mnt">>), Str(<<"c", ":", "/", "mnt">>)}
GitrepoDirs == {None, Str(<<".">>), Str(<<"src", ".", "d">>), Str(<<".", ".", "/", "src">>)}
Images == {None, Str(<<"alpine">>), Str(<<"alpine", ":", "latest">>),
           Str(<<"myregistry", "/", "alpine", ":", "latest">>)}
CommandLines == {None, Str(<<"tail -f /dev/null">>)}

VolumeNamespaces ==
    {[DefaultNamespace EXCEPT !.azure_file_volume_mount_path = m, !.gitrepo_dir = g,
                              !.image = i, !.command_line = c] :
        m \in MountPaths, g \in GitrepoDirs, i \in Images, c \in CommandLines}

SecretsNamespaces ==
    {[DefaultNamespace EXCEPT !.secrets = List(l)] : l \in SeqsUpTo(SecretTokens, MaxSecrets)}

Identities == {None, List(<<>>), List(<<MSI_LOCAL_ID>>), List(<<<<"myid">>>>),
               List(<<<<"myid">>, MSI_LOCAL_ID>>)}
Scopes == {None, Str(<<>>), Str(Scope1), Str(Scope2)}
Roles ==
    {DefaultStr(<<"Contributor">>), Str(<<"Reader">>), Str(<<"Owner">>),
     Str(<<"acdd72a7-3385-48ef-bd42-f606fba81ae7">>),
     Str(<<"{b24988ac-6180-42a0-ab88-20f7382dd24c}">>),
     Str(<<"/", "SUBSCRIPTIONS", "/", "sub7">> \o RoleDefinitionsInfix \o <<"r7">>),
     Str(<<"/", "subscriptions">> \o RoleDefinitionsInfix \o <<"r7">>)}

MsiNamespaces ==
    {[DefaultNamespace EXCEPT !.assign_identity = a, !.identity_scope = s,
                              !.identity_role = r] :
        a \in Identities, s \in Scopes, r \in Roles}

VnetNames == {None, Str(<<>>), Str(<<"oldvnet">>)}
Vnets == {None, Str(<<>>), Str(<<"vn1">>), Str(VnetId)}
Subnets == {None, Str(<<>>), Str(<<"sn1">>), Str(SubnetId)}

SubnetNamespaces ==
    {[DefaultNamespace EXCEPT !.vnet_name = o, !.vnet = v, !.subnet = s] :
        o \in VnetNames, v \in Vnets, s \in Subnets}

NetworkProfiles == {None, Str(<<>>), Str(<<"np1">>), Str(NetworkProfileId)}
IpAddresses == {None, Str(<<"Public">>)}
DnsNameLabels == {None, Str(<<>>), Str(<<"mylabel">>)}
ResourceGroups == {Str(<<"rg1">>), Str(<<"rg2">>)}

NetworkNamespaces ==
    {[DefaultNamespace EXCEPT !.network_profile = p, !.ip_address = i,
                              !.dns_name_label = d, !.resource_group_name = g] :
        p \in NetworkProfiles, i \in IpAddresses, d \in DnsNameLabels, g \in ResourceGroups}

\* The command context: the subscription and the remote service behind it.
cmd == [cli_ctx |-> [subscription_id |-> SubscriptionId, role_definitions |-> remote]]

-----------------------------------------------------------------------------
(* The state machine: the framework parses a namespace, then calls validators
   on it until one raises, which aborts the command. *)

Init ==
    /\ \/ ns \in MsiNamespaces /\ remote \in Remotes
       \/ /\ ns \in VolumeNamespaces \cup SecretsNamespaces
                    \cup SubnetNamespaces \cup NetworkNamespaces
          /\ remote = <<>>
    /\ pre = ns
    /\ last = "none"
    /\ raised = NoError
    /\ queries = <<>>
    /\ warned = FALSE

CallVolumeMountPath ==
    /\ raised = NoError
    /\ LET r == validate_volume_mount_path(ns)
       IN  /\ ns' = r.ns
           /\ raised' = r.raised
           /\ queries' = r.queries
           /\ warned' = r.warned
    /\ pre' = ns
    /\ last' = "validate_volume_mount_path"
    /\ UNCHANGED remote

CallSecrets ==
    /\ raised = NoError
    /\ LET r == validate_secrets(ns)
       IN  /\ ns' = r.ns
           /\ raised' = r.raised
           /\ queries' = r.queries
           /\ warned' = r.warned
    /\ pre' = ns
    /\ last' = "validate_secrets"
    /\ UNCHANGED remote

CallGitrepoDirectory ==
    /\ raised = NoError
    /\ LET r == validate_gitrepo_directory(ns)
       IN  /\ ns' = r.ns
           /\ raised' = r.raised
           /\ queries' = r.queries
           /\ warned' = r.warned
    /\ pre' = ns
    /\ last' = "validate_gitrepo_directory"
    /\ UNCHANGED remote

CallImage ==
    /\ raised = NoError
    /\ LET r == validate_image(ns)
       IN  /\ ns' = r.ns
           /\ raised' = r.raised
           /\ queries' = r.queries
           /\ warned' = r.warned
    /\ pre' = ns
    /\ last' = "validate_image"
    /\ UNCHANGED remote

CallMsi ==
    /\ raised = NoError
    /\ LET r == validate_msi(cmd, ns)
       IN  /\ ns' = r.ns
           /\ raised' = r.raised
           /\ queries' = r.queries
           /\ warned' = r.warned
    /\ pre' = ns
    /\ last' = "validate_msi"
    /\ UNCHANGED remote

CallSubnet ==
    /\ raised = NoError
    /\ LET r == validate_subnet(ns)
       IN  /\ ns' = r.ns
           /\ raised' = r.raised
           /\ queries' = r.queries
           /\ warned' = r.warned
    /\ pre' = ns
    /\ last' = "validate_subnet"
    /\ UNCHANGED remote

CallNetworkProfile ==
    /\ raised = NoError
    /\ LET r == validate_network_profile(cmd, ns)
       IN  /\ ns' = r.ns
           /\ raised' = r.raised
           /\ queries' = r.queries
           /\ warned' = r.warned
    /\ pre' = ns
    /\ last' = "validate_network_profile"
    /\ UNCHANGED remote

Next ==
    \/ CallVolumeMountPath
    \/ CallSecrets
    \/ CallGitrepoDirectory
    \/ CallImage
    \/ CallMsi
    \/ CallSubnet
    \/ CallNetworkProfile

Spec == Init /\ [][Next]_vars

-----------------------------------------------------------------------------
(* Properties of validate_msi and role resolution *)

UsageErrorMessages ==
    {"usage error: '--role {}' is not applicable as the '--scope' is not provided",
     "usage error: '--scope'/'--role' is only applicable when assign system identity",
     "usage error: --assign-identity [--scope SCOPE] [--role ROLE]"}

RoleResolutionMessages ==
    {"Role '{}' doesn't exist.",
     "More than one role matches the given name '{}'. Please pick an id from '{}'"}

ExplicitRole(n) == n.identity_role.kind = "str"
HasSystemOrNoIdentity(n) ==
    n.assign_identity.val = <<>>
    \/ \E i \in 1..Len(n.assign_identity.val) : n.assign_identity.val[i] = <<"[system]">>

MsiCaseA == pre.assign_identity = None /\ (Truthy(pre.identity_scope) \/ ExplicitRole(pre))
MsiCaseB == pre.assign_identity # None /\ ~Truthy(pre.identity_scope) /\ ExplicitRole(pre)
MsiCaseC ==
    pre.assign_identity # None /\ Truthy(pre.identity_scope) /\ ~HasSystemOrNoIdentity(pre)

\* C1: validate_msi raises a usage error exactly when (a) assign_identity is
\* None and a scope or an explicit role is given, (b) assign_identity is set,
\* no scope is given and an explicit role is given, or (c) assign_identity and
\* a scope are set and the non-empty identity list lacks '[system]'; any other
\* error of validate_msi is one of role resolution.
C1_MsiUsageErrorCases ==
    last = "validate_msi" =>
        /\ raised.msg \in UsageErrorMessages <=> (MsiCaseA \/ MsiCaseB \/ MsiCaseC)
        /\ raised.msg \notin UsageErrorMessages =>
               raised.msg \in RoleResolutionMessages \cup {"none"}

C1_Witness ==
    /\ last = "validate_msi"
    /\ MsiCaseC
    /\ raised.msg = "usage error: '--scope'/'--role' is only applicable when assign system identity"

\* The call reached role resolution: identity given, scope given, and the
\* identity list empty or holding '[system]'.
ResolutionReached ==
    /\ last = "validate_msi"
    /\ pre.assign_identity # None
    /\ Truthy(pre.identity_scope)
    /\ HasSystemOrNoIdentity(pre)

\* C2: with assign_identity and a scope set and the identity list empty or
\* holding '[system]', validate_msi stores what role resolution returns for the
\* role and that scope as identity_role_id and leaves identity_role alone (a
\* failed resolution stores nothing); with no scope it issues no query and
\* leaves identity_role_id unset.
C2_RoleIdStored ==
    /\ ResolutionReached =>
          LET r == _resolve_role_id(cmd.cli_ctx, pre.identity_role, pre.identity_scope)
          IN  /\ raised = r.raised
              /\ queries = r.queries
              /\ ns.identity_role_id =
                     (IF r.raised = NoError THEN r.role_id ELSE pre.identity_role_id)
              /\ ns.identity_role = pre.identity_role
    /\ last = "validate_msi" /\ ~Truthy(pre.identity_scope) =>
          queries = <<>> /\ ns.identity_role_id = Missing /\ ns.identity_role = pre.identity_role

C2_Witness ==
    /\ ResolutionReached
    /\ pre.assign_identity = List(<<<<"[system]">>>>)
    /\ pre.identity_role = Str(<<"Reader">>)
    /\ pre.identity_scope = Str(Scope2)
    /\ raised = NoError
    /\ ns.identity_role = Str(<<"Reader">>)
    /\ ns.identity_role_id = Str(RoleDefinitionId("r3"))

\* The ids of the remote definitions of that name under that scope.
MatchingIds(name, scope) ==
    {remote[i].id : i \in {j \in 1..Len(remote) :
                              remote[j].roleName = name /\ remote[j].scope = scope}}

\* C3: role resolution returns a role already in role-definition path form as
\* it is; otherwise turns a UUID into the path under the current subscription;
\* otherwise queries the remote service once, by scope and role name, and
\* fails on no match, fails listing every candidate id on several matches, and
\* returns the id of a single match.  Only the third case queries the service.
C3_ResolutionPrecedence ==
    ResolutionReached =>
        LET role == pre.identity_role.val
            ids == MatchingIds(role, pre.identity_scope.val)
        IN  IF MatchesRoleDefinitionPath(role)
            THEN raised = NoError /\ queries = <<>> /\ ns.identity_role_id = Str(role)
            ELSE IF ParsesAsUUID(role)
            THEN /\ raised = NoError /\ queries = <<>>
                 /\ ns.identity_role_id =
                        Str(<<"/", "subscriptions", "/", "sub0", "/", "providers", "/",
                              "Microsoft.Authorization", "/", "roleDefinitions", "/">> \o role)
            ELSE /\ queries = <<[scope |-> pre.identity_scope.val,
                                 filter |-> <<"roleName eq '">> \o role \o <<"'">>]>>
                 /\ Cardinality(ids) = 0 =>
                        raised = CLIError("Role '{}' doesn't exist.")
                 /\ Cardinality(ids) > 1 =>
                        /\ raised.msg = "More than one role matches the given name '{}'. Please pick an id from '{}'"
                        /\ {raised.ids[i] : i \in 1..Len(raised.ids)} = ids
                        /\ Len(raised.ids) = Cardinality(ids)
                 /\ Cardinality(ids) = 1 =>
                        raised = NoError /\ ns.identity_role_id = Str(CHOOSE x \in ids : TRUE)

C3_Witness ==
    /\ ResolutionReached
    /\ pre.identity_role = Str(<<"Reader">>)
    /\ Len(queries) = 1
    /\ Len(raised.ids) = 2

-----------------------------------------------------------------------------
(* Properties of validate_subnet and validate_network_profile *)

SubnetUsageError ==
    CLIError("usage error: --vnet NAME --subnet NAME | --vnet ID --subnet NAME | --subnet ID")

\* C4: validate_subnet copies vnet_name into vnet exactly when vnet_name is set
\* and vnet is not; then, unless subnet is a fully-qualified resource ID, it
\* raises the usage error exactly when one of vnet and subnet is set and the
\* other is not; with a fully-qualified subnet it never raises.
C4_SubnetRule ==
    last = "validate_subnet" =>
        /\ ns.vnet = (IF Truthy(pre.vnet_name) /\ ~Truthy(pre.vnet)
                      THEN pre.vnet_name ELSE pre.vnet)
        /\ \A f \in (DOMAIN ns) \ {"vnet"} : ns[f] = pre[f]
        /\ IF pre.subnet = Str(SubnetId) THEN raised = NoError
           ELSE IF Truthy(ns.vnet) = Truthy(pre.subnet) THEN raised = NoError
           ELSE raised = SubnetUsageError

C4_Witness ==
    /\ last = "validate_subnet"
    /\ pre.vnet_name = Str(<<"oldvnet">>)
    /\ pre.vnet = None
    /\ ns.vnet = Str(<<"oldvnet">>)
    /\ pre.subnet = Str(<<"sn1">>)
    /\ raised = NoError

ProfileIdOf(n) ==
    <<"/", "subscriptions", "/", "sub0", "/", "resourceGroups", "/">>
        \o n.resource_group_name.val
        \o <<"/", "providers", "/", "Microsoft.Network", "/", "networkProfiles", "/">>
        \o n.network_profile.val

\* The fully-qualified network-profile IDs: the one the command line may
\* give and the ones built from a short name.
FullyQualifiedProfiles ==
    {NetworkProfileId}
    \cup {ProfileIdOf([resource_group_name |-> g, network_profile |-> p]) :
             g \in ResourceGroups, p \in {Str(<<"np1">>)}}

-----------------------------------------------------------------------------
(* Properties of validate_secrets *)

\* Number of '=' characters in a token.
CountEq(t) == Cardinality({i \in 1..Len(t) : t[i] = "="})

\* Key and value of a token that holds '=': what stands before and what
\* stands after the first '='.
KeyOf(t) == CHOOSE k \in {SubSeq(t, 1, j) : j \in 0..Len(t)} :
                /\ CountEq(k) = 0
                /\ Len(k) < Len(t)
                /\ t[Len(k) + 1] = "="
ValueOf(t) == SubSeq(t, Len(KeyOf(t)) + 2, Len(t))

\* The last non-empty token of the list whose key is k.
LastWithKey(items, k) ==
    LET idx == {i \in 1..Len(items) : items[i] # <<>> /\ KeyOf(items[i]) = k}
    IN  items[CHOOSE i \in idx : \A j \in idx : j <= i]

SecretFormatError == CLIError("Secrets need to be specifed in key=value format.")

\* C7: validate_secrets replaces a list of tokens by the mapping that takes
\* each key of the list to the base64 text of the value of the last token with
\* that key, tokens being split at their first '=' and empty tokens adding
\* nothing; if a token lacks '=', the call fails and the list stays; secrets
\* that are not a list are left alone.
C7_SecretsMap ==
    last = "validate_secrets" =>
        IF pre.secrets.kind = "list"
        THEN LET items == pre.secrets.val
                 full == {i \in 1..Len(items) : items[i] # <<>>}
             IN  IF \E i \in full : CountEq(items[i]) = 0
                 THEN raised = SecretFormatError /\ ns = pre
                 ELSE /\ raised = NoError
                      /\ ns.secrets.kind = "dict"
                      /\ DOMAIN ns.secrets.val = {KeyOf(items[i]) : i \in full}
                      /\ \A k \in DOMAIN ns.secrets.val :
                            ns.secrets.val[k] = b64encode(encode(ValueOf(LastWithKey(items, k))))
                      /\ \A f \in (DOMAIN ns) \ {"secrets"} : ns[f] = pre[f]
        ELSE raised = NoError /\ ns = pre

\* 'k=kk=k' then 'k==': the later value '=' wins, in base64 'PQ=='.
C7_Witness ==
    /\ last = "validate_secrets"
    /\ Len(pre.secrets.val) = 2
    /\ pre.secrets.val[1] = <<"k", "=", "k", "k", "=", "k">>
    /\ pre.secrets.val[2] = <<"k", "=", "=">>
    /\ ns.secrets = Dict(<<"k">> :> <<"P", "Q", "=", "=">>)

\* C8 as stated (empty tokens, which add nothing, set aside): the tokens of an
\* accepted list each hold exactly one '=', and a list with a token that holds
\* none or more than one is rejected.
C8_ExactlyOneSeparator ==
    last = "validate_secrets" /\ pre.secrets.kind = "list" =>
        (raised = NoError <=>
            \A i \in 1..Len(pre.secrets.val) :
                pre.secrets.val[i] # <<>> => CountEq(pre.secrets.val[i]) = 1)

\* C8 amended: a list is rejected, with the format error, exactly when one of
\* its non-empty tokens holds no '='; so every token of an accepted list is
\* empty or holds at least one '=', and further '=' belong to the value.
C8_AtLeastOneSeparator ==
    last = "validate_secrets" /\ pre.secrets.kind = "list" =>
        /\ raised # NoError <=>
              \E i \in 1..Len(pre.secrets.val) :
                  pre.secrets.val[i] # <<>> /\ CountEq(pre.secrets.val[i]) = 0
        /\ raised # NoError => raised = SecretFormatError

C8_Witness ==
    /\ last = "validate_secrets"
    /\ pre.secrets.kind = "list"
    /\ raised = NoError
    /\ \E i \in 1..Len(pre.secrets.val) : CountEq(pre.secrets.val[i]) = 2
    /\ ns.secrets.kind = "dict"

-----------------------------------------------------------------------------
(* Properties of every validator *)

C10_FailureLeavesNamespace ==
    raised # NoError => ns = pre

\* C10 amended: a call that raises has left every field other than vnet as it
\* was; vnet differs only after validate_subnet, which has then copied
\* vnet_name into the unset vnet before raising.
C10_FailureLeavesAllButVnet ==
    raised # NoError =>
        /\ \A f \in (DOMAIN ns) \ {"vnet"} : ns[f] = pre[f]
        /\ ns.vnet # pre.vnet =>
              /\ last = "validate_subnet"
              /\ ~Truthy(pre.vnet)
              /\ Truthy(pre.vnet_name)
              /\ ns.vnet = pre.vnet_name

C10_Witness ==
    /\ last = "validate_subnet"
    /\ raised = SubnetUsageError
    /\ pre.vnet = None
    /\ ns.vnet = Str(<<"oldvnet">>)

====
